---- MODULE Spec2Model ----
(***************************************************************************)
(* Model of the 2D game engine of src/script.js: GameEngine (frame         *)
(* scheduler, scenes, input state), EventSystem, Inventory, CGSystem,      *)
(* GameObject / Player / Item, Scene / GameScene, GameMenu (save and load). *)
(*                                                                         *)
(* JavaScript runs every DOM handler, timer callback and frame callback to *)
(* completion, so each of them is one action.  The objects' fields are the *)
(* variables; the methods are operators from a world record (all the       *)
(* objects) to the world record after the call, composed the way the code  *)
(* calls them.  trace and op are history variables: what the last handler  *)
(* did, in order.                                                          *)
(***************************************************************************)
EXTENDS Integers, Sequences, FiniteSets, TLC

VARIABLES engine, scenes, objs, events, items, menu, store, raf, timers,
          clock, trace, op, subcnt

vars == <<engine, scenes, objs, events, items, menu, store, raf, timers,
          clock, trace, op, subcnt>>

----------------------------------------------------------------------------
(* Bounds of the model *)

\* handlers a client may subscribe: ids 1..NumHandlers
NumHandlers == 2
\* longest subscriber list explored for one channel
MaxSubs == 2
\* payloads published by a client: 1..NumPayloads
NumPayloads == 2
\* host timestamps (performance.now(), frame times) are 0..MaxTime
MaxTime == 1
\* most frame callbacks outstanding at once
MaxRaf == 2
\* most calls of init() explored for one scene
MaxInits == 2
\* most load callbacks outstanding at once
MaxLoads == 1
\* the client of the running game adds when at most MaxSpare places are free
MaxSpare == 1
\* most closing timers of CGSystem outstanding at once
MaxCloseTimers == 2
\* positions of the rectangles tested are 0..MaxCoord on each axis, their
\* widths and heights 0..MaxSize
MaxCoord == 2
MaxSize == 2
\* the pointer is put up to HoverMargin px outside an item's rectangle
HoverMargin == 1
\* the frame times given to Player.update, in ms: none, StepDelta and
\* HugeDelta, forwards and backwards
StepDelta == 1000
HugeDelta == 1000000

----------------------------------------------------------------------------
(* Values *)

\* the channels of the event bus: the ones the program publishes on
Channels == {"itemCollected", "cgPlayed", "cgEnded", "keydown", "keyup", "click"}
\* the channels a client of the bus subscribes to and publishes on
BusChannels == {"itemCollected", "cgPlayed"}

\* a subscriber: kind says what the callback does when called
\*   "log"  : records that it ran (an order-recording side effect)
\*   "stop" : calls engine.stop()
\*   "unsub": unsubscribes itself from the channel it is called on
\*   "sub"  : subscribes the "log" handler of its id to the channel it is
\*            called on, unless that one is subscribed already
\*   "gs"   : GameScene's itemCollected listener
Handler(k, i) == [kind |-> k, id |-> i]
LogHandlers == {Handler("log", i) : i \in 1..NumHandlers}

\* an item description object: its name, whether it has an onUse function,
\* and ref, the identity of the object (indexOf compares references)
Desc(n, r) == [name |-> n, ref |-> r, onUse |-> TRUE]
Null == [name |-> 0, ref |-> 0, onUse |-> FALSE]
Payloads == {Desc(n, 0) : n \in 1..NumPayloads}
\* the item descriptions a client of the inventory holds
InvDescs == {Desc(1, 0), Desc(2, 0)}

\* an entry of trace
NoHandler == Handler("none", 0)
Ev(e, c, h, d) == [ev |-> e, ch |-> c, h |-> h, data |-> d, n |-> 0]
EvN(e, n) == [ev |-> e, ch |-> "", h |-> NoHandler, data |-> Null, n |-> n]
\* op: the handler that ran last, with its arguments and return value
Op(n, c, h, d, r) == [name |-> n, ch |-> c, h |-> h, data |-> d, ret |-> r, n |-> 0]
OpN(n, k) == [name |-> n, ch |-> "", h |-> NoHandler, data |-> Null, ret |-> FALSE, n |-> k]
NoOp == OpN("init", 0)

\* the one-shot timers outstanding: the number of completion timers of
\* GameScene, the load callbacks of GameMenu.loadGame, each with the
\* data it has captured, and the number of closing timers of CGSystem
NoTimers == [completion |-> 0, load |-> <<>>, close |-> 0]

\* a presentation payload (cgData): its title and its duration in ms, 0 when
\* it has none
CgData(t, d) == [title |-> t, duration |-> d]
NullCG == CgData(0, 0)

\* localStorage's entry gameSave: absent, or the text written by saveGame,
\* which holds one JSON object per item
NoSave == [kind |-> "absent", inventory |-> <<>>]

\* clock.now is the host's time, what performance.now() returns and what a
\* frame callback is given; started and stopped are history: the time of
\* the last start() and of the last stop()
NoClock == [now |-> 0, started |-> 0, stopped |-> 0]

\* the world: every object of the program
W == [engine |-> engine, scenes |-> scenes, objs |-> objs, events |-> events,
      items |-> items, menu |-> menu, store |-> store, raf |-> raf,
      timers |-> timers, clock |-> clock, trace |-> <<>>]

Commit(w) ==
    /\ engine' = w.engine
    /\ scenes' = w.scenes
    /\ objs' = w.objs
    /\ events' = w.events
    /\ items' = w.items
    /\ menu' = w.menu
    /\ store' = w.store
    /\ raf' = w.raf
    /\ timers' = w.timers
    /\ clock' = w.clock
    /\ trace' = w.trace

Log(w, e) == [w EXCEPT !.trace = Append(@, e)]

\* Array.prototype.indexOf: index of the first occurrence (1-based), 0 if absent
IndexOf(s, x) ==
    IF \E i \in 1..Len(s) : s[i] = x
    THEN CHOOSE i \in 1..Len(s) : s[i] = x /\ \A j \in 1..(i - 1) : s[j] # x
    ELSE 0

\* Array.prototype.splice(index, 1), index 1-based
Splice(s, i) == [j \in 1..(Len(s) - 1) |-> IF j < i THEN s[j] ELSE s[j + 1]]

----------------------------------------------------------------------------
(* EventSystem *)

\* a channel of the Map events: absent, or its array of callbacks
NoChannel == [has |-> FALSE, cbs |-> <<>>]

\* GameEngine.stop
Stop(w) == [w EXCEPT !.engine.isRunning = FALSE]

\* setTimeout(() => this.triggerCompletionCG(), 2000)
SetCompletionTimer(w) == [w EXCEPT !.timers.completion = @ + 1]

\* GameScene.setupEventListeners: the itemCollected listener of scene "game"
OnItemCollected(w) ==
    IF Len(w.items) >= 3 /\ ~w.scenes["game"].cgTriggered
    THEN SetCompletionTimer(w)
    ELSE w

\* EventSystem.on
On(w, c, h) ==
    LET w1 == IF ~w.events[c].has
              THEN [w EXCEPT !.events[c] = [has |-> TRUE, cbs |-> <<>>]]
              ELSE w
    IN [w1 EXCEPT !.events[c].cbs = Append(@, h)]

\* off that takes index 0 of indexOf for "not found"
OffKeepsFirst(w, c, h) ==
    IF w.events[c].has
    THEN LET index == IndexOf(w.events[c].cbs, h) IN
         IF index > 1
         THEN [w EXCEPT !.events[c].cbs = Splice(@, index)]
         ELSE w
    ELSE w

\* off that removes the last occurrence of the handler, not the first
OffRemovesLast(w, c, h) ==
    IF w.events[c].has
    THEN LET cbs == w.events[c].cbs
             found == {k \in 1..Len(cbs) : cbs[k] = h}
         IN IF found # {}
            THEN [w EXCEPT !.events[c].cbs =
                     Splice(@, CHOOSE k \in found : \A j \in found : j <= k)]
            ELSE w
    ELSE w

\* EventSystem.off
Off(w, c, h) ==
    IF w.events[c].has
    THEN LET index == IndexOf(w.events[c].cbs, h) IN
         IF index > 0
         THEN [w EXCEPT !.events[c].cbs = Splice(@, index)]
         ELSE w
    ELSE w

\* the body of a subscribed callback; the cgPlayed and cgEnded listeners of
\* GameScene only write to the console
HandlerBody(w, c, h, d) ==
    LET w1 == Log(w, Ev("call", c, h, d)) IN
    CASE h.kind = "stop" -> Stop(w1)
      [] h.kind = "gs.itemCollected" -> OnItemCollected(w1)
      [] h.kind = "unsub" -> Off(w1, c, h)
      [] h.kind = "sub" ->
            IF IndexOf(w1.events[c].cbs, Handler("log", h.id)) = 0
            THEN On(w1, c, Handler("log", h.id))
            ELSE w1
      [] OTHER -> w1

\* Array.prototype.forEach over the live array events[c].cbs: the length is
\* read once, an index no longer in the array is skipped
RECURSIVE ForEachCallback(_, _, _, _, _)
ForEachCallback(w, c, d, k, len) ==
    IF k > len THEN w
    ELSE IF k <= Len(w.events[c].cbs)
         THEN ForEachCallback(HandlerBody(w, c, w.events[c].cbs[k], d), c, d, k + 1, len)
         ELSE ForEachCallback(w, c, d, k + 1, len)

\* emit that calls callback() without the payload
EmitWithoutData(w, c, d) ==
    IF w.events[c].has
    THEN ForEachCallback(w, c, Null, 1, Len(w.events[c].cbs))
    ELSE w

\* EventSystem.emit
Emit(w, c, d) ==
    IF w.events[c].has
    THEN ForEachCallback(w, c, d, 1, Len(w.events[c].cbs))
    ELSE w

----------------------------------------------------------------------------
(* Inventory *)

maxItems == 10

\* addItem that admits one item too many
AddItemOffByOne(w, item) ==
    IF Len(w.items) <= maxItems
    THEN [w |-> [w EXCEPT !.items = Append(@, item)], ret |-> TRUE]
    ELSE [w |-> w, ret |-> FALSE]

\* Inventory.addItem: the inventory after the call and the value returned
\* (updateUI only rebuilds the DOM list)
AddItem(w, item) ==
    IF Len(w.items) < maxItems
    THEN [w |-> [w EXCEPT !.items = Append(@, item)], ret |-> TRUE]
    ELSE [w |-> w, ret |-> FALSE]

\* removeItem that removes the last occurrence of the item, not the first
RemoveItemLast(w, item) ==
    LET found == {k \in 1..Len(w.items) : w.items[k] = item} IN
    IF found # {}
    THEN [w |-> [w EXCEPT !.items =
                    Splice(@, CHOOSE k \in found : \A j \in found : j <= k)],
          ret |-> TRUE]
    ELSE [w |-> w, ret |-> FALSE]

\* Inventory.removeItem
RemoveItem(w, item) ==
    LET index == IndexOf(w.items, item) IN
    IF index > 0
    THEN [w |-> [w EXCEPT !.items = Splice(@, index)], ret |-> TRUE]
    ELSE [w |-> w, ret |-> FALSE]

----------------------------------------------------------------------------
(* GameObject, Player, Item.  Lengths are in units of 1/Scale pixel, so   *)
(* that speed * deltaTime / 1000 is a whole number of units.               *)

speed == 200
Scale == (1000 * 1000) \div speed
Px(n) == n * Scale
\* canvas.width, canvas.height
CanvasWidth == 800
CanvasHeight == 600
PlayerSize == 32
ItemSize == 24

\* new Player(x, y)
NewPlayer(x, y) ==
    [kind |-> "player", x |-> Px(x), y |-> Px(y), width |-> Px(PlayerSize),
     height |-> Px(PlayerSize), visible |-> TRUE, hasEngine |-> FALSE,
     direction |-> [x |-> 0, y |-> 0],
     itemData |-> Null, collected |-> FALSE, hovered |-> FALSE]

\* new Item(x, y, itemData)
NewItem(x, y, itemData) ==
    [kind |-> "item", x |-> Px(x), y |-> Px(y), width |-> Px(ItemSize),
     height |-> Px(ItemSize), visible |-> TRUE, hasEngine |-> FALSE,
     direction |-> [x |-> 0, y |-> 0],
     itemData |-> itemData, collected |-> FALSE, hovered |-> FALSE]

\* new GameObject(x, y, width, height), in the units the caller gives
NewGameObject(x, y, width, height) ==
    [kind |-> "object", x |-> x, y |-> y, width |-> width, height |-> height,
     visible |-> TRUE, hasEngine |-> FALSE, direction |-> [x |-> 0, y |-> 0],
     itemData |-> Null, collected |-> FALSE, hovered |-> FALSE]

\* GameObject.getBounds
GetBounds(o) == [x |-> o.x, y |-> o.y, width |-> o.width, height |-> o.height]

\* a collision test that counts touching rectangles as colliding
IsCollidingClosed(this, other) ==
    LET bounds1 == GetBounds(this)
        bounds2 == GetBounds(other)
    IN /\ bounds1.x <= bounds2.x + bounds2.width
       /\ bounds1.x + bounds1.width >= bounds2.x
       /\ bounds1.y <= bounds2.y + bounds2.height
       /\ bounds1.y + bounds1.height >= bounds2.y

\* a collision test that counts touching on this' left and top edges only
IsCollidingHalfOpen(this, other) ==
    LET bounds1 == GetBounds(this)
        bounds2 == GetBounds(other)
    IN /\ bounds1.x <= bounds2.x + bounds2.width
       /\ bounds1.x + bounds1.width > bounds2.x
       /\ bounds1.y <= bounds2.y + bounds2.height
       /\ bounds1.y + bounds1.height > bounds2.y

\* GameObject.isColliding
IsColliding(this, other) ==
    LET bounds1 == GetBounds(this)
        bounds2 == GetBounds(other)
    IN /\ bounds1.x < bounds2.x + bounds2.width
       /\ bounds1.x + bounds1.width > bounds2.x
       /\ bounds1.y < bounds2.y + bounds2.height
       /\ bounds1.y + bounds1.height > bounds2.y

Max(a, b) == IF a > b THEN a ELSE b
Min(a, b) == IF a < b THEN a ELSE b

\* the direction Player.update reads from the keys on one axis: the later
\* test (right, down) overrides the earlier (left, up)
KeyDirection(keys, minus, plus) ==
    IF plus \cap keys # {} THEN 1
    ELSE IF minus \cap keys # {} THEN -1
    ELSE 0

\* Player.update without the 0.707 of diagonal movement
PlayerUpdateNoNormalise(w, id, deltaTime) ==
    LET o == w.objs[id]
        dx0 == KeyDirection(w.engine.keys, {"ArrowLeft", "KeyA"}, {"ArrowRight", "KeyD"})
        dy0 == KeyDirection(w.engine.keys, {"ArrowUp", "KeyW"}, {"ArrowDown", "KeyS"})
        x1 == o.x + dx0 * 1000 * deltaTime
        y1 == o.y + dy0 * 1000 * deltaTime
    IN IF ~o.hasEngine
       THEN Log([w EXCEPT !.objs[id].direction = [x |-> 0, y |-> 0]], EvN("throw", id))
       ELSE [w EXCEPT !.objs[id].direction = [x |-> dx0 * 1000, y |-> dy0 * 1000],
                      !.objs[id].x = Max(0, Min(x1, Px(CanvasWidth) - o.width)),
                      !.objs[id].y = Max(0, Min(y1, Px(CanvasHeight) - o.height))]

\* Player.update without the boundary check
PlayerUpdateUnclamped(w, id, deltaTime) ==
    LET o == w.objs[id]
        dx0 == KeyDirection(w.engine.keys, {"ArrowLeft", "KeyA"}, {"ArrowRight", "KeyD"})
        dy0 == KeyDirection(w.engine.keys, {"ArrowUp", "KeyW"}, {"ArrowDown", "KeyS"})
        f == IF dx0 # 0 /\ dy0 # 0 THEN 707 ELSE 1000
    IN IF ~o.hasEngine
       THEN Log([w EXCEPT !.objs[id].direction = [x |-> 0, y |-> 0]], EvN("throw", id))
       ELSE [w EXCEPT !.objs[id].direction = [x |-> dx0 * f, y |-> dy0 * f],
                      !.objs[id].x = o.x + dx0 * f * deltaTime,
                      !.objs[id].y = o.y + dy0 * f * deltaTime]

\* Player.update; direction is kept in thousandths (0.707 is 707).  A player
\* with no engine keeps direction 0 and its position, and the boundary
\* check throws on this.engine.width
PlayerUpdate(w, id, deltaTime) ==
    LET o == w.objs[id]
        dx0 == KeyDirection(w.engine.keys, {"ArrowLeft", "KeyA"}, {"ArrowRight", "KeyD"})
        dy0 == KeyDirection(w.engine.keys, {"ArrowUp", "KeyW"}, {"ArrowDown", "KeyS"})
        f == IF dx0 # 0 /\ dy0 # 0 THEN 707 ELSE 1000
        x1 == o.x + dx0 * f * deltaTime
        y1 == o.y + dy0 * f * deltaTime
    IN IF ~o.hasEngine
       THEN Log([w EXCEPT !.objs[id].direction = [x |-> 0, y |-> 0]], EvN("throw", id))
       ELSE [w EXCEPT !.objs[id].direction = [x |-> dx0 * f, y |-> dy0 * f],
                      !.objs[id].x = Max(0, Min(x1, Px(CanvasWidth) - o.width)),
                      !.objs[id].y = Max(0, Min(y1, Px(CanvasHeight) - o.height))]

\* collect that publishes itemCollected before it calls addItem
ItemCollectEmitFirst(w, id) ==
    IF w.objs[id].collected THEN w
    ELSE LET w1 == [w EXCEPT !.objs[id].collected = TRUE] IN
         IF w1.objs[id].hasEngine
         THEN IF Len(w1.items) < maxItems
              THEN LET w2 == Emit(Log(w1, EvN("collect.published", id)),
                                  "itemCollected", w1.objs[id].itemData)
                   IN AddItem(w2, w1.objs[id].itemData).w
              ELSE Log(w1, EvN("collect.refused", id))
         ELSE w1

\* Item.collect (showDialogue only shows and later hides a DOM element)
ItemCollect(w, id) ==
    IF w.objs[id].collected THEN w
    ELSE LET w1 == [w EXCEPT !.objs[id].collected = TRUE] IN
         IF w1.objs[id].hasEngine
         THEN LET r == AddItem(w1, w1.objs[id].itemData) IN
              IF r.ret
              THEN Emit(Log(r.w, EvN("collect.published", id)),
                        "itemCollected", w1.objs[id].itemData)
              ELSE Log(r.w, EvN("collect.refused", id))
         ELSE w1

\* Item.update with a hover test that leaves the boundary out
ItemUpdateStrict(w, id) ==
    LET o == w.objs[id]
        mouse == w.engine.mouse
    IN IF o.collected THEN w
       ELSE LET hovered == IF o.hasEngine
                           THEN /\ mouse.x > o.x /\ mouse.x < o.x + o.width
                                /\ mouse.y > o.y /\ mouse.y < o.y + o.height
                           ELSE o.hovered
                w1 == [w EXCEPT !.objs[id].hovered = hovered]
            IN IF hovered /\ o.hasEngine /\ mouse.clicked
               THEN ItemCollect(w1, id)
               ELSE w1

\* Item.update and Item.collect without their tests of this.collected
ItemUpdateUnguarded(w, id) ==
    LET o == w.objs[id]
        mouse == w.engine.mouse
        hovered == IF o.hasEngine
                   THEN /\ mouse.x >= o.x /\ mouse.x <= o.x + o.width
                        /\ mouse.y >= o.y /\ mouse.y <= o.y + o.height
                   ELSE o.hovered
        w1 == [w EXCEPT !.objs[id].hovered = hovered, !.objs[id].collected = TRUE]
    IN IF hovered /\ o.hasEngine /\ mouse.clicked
       THEN LET r == AddItem(w1, o.itemData) IN
            IF r.ret
            THEN Emit(Log(r.w, EvN("collect.published", id)), "itemCollected", o.itemData)
            ELSE r.w
       ELSE [w EXCEPT !.objs[id].hovered = hovered]

\* Item.update
ItemUpdate(w, id) ==
    LET o == w.objs[id]
        mouse == w.engine.mouse
    IN IF o.collected THEN w
       ELSE LET hovered == IF o.hasEngine
                           THEN /\ mouse.x >= o.x /\ mouse.x <= o.x + o.width
                                /\ mouse.y >= o.y /\ mouse.y <= o.y + o.height
                           ELSE o.hovered
                w1 == [w EXCEPT !.objs[id].hovered = hovered]
            IN IF hovered /\ o.hasEngine /\ mouse.clicked
               THEN ItemCollect(w1, id)
               ELSE w1

\* obj.update(deltaTime), by the class of obj
ObjUpdate(w, id, deltaTime) ==
    LET w1 == Log(w, EvN("obj.update", id)) IN
    IF w.objs[id].kind = "player" THEN PlayerUpdate(w1, id, deltaTime)
    ELSE ItemUpdate(w1, id)

\* obj.render(ctx) with an Item.render that does not test this.collected
ObjRenderCollected(w, id) ==
    LET o == w.objs[id] IN
    IF o.kind = "player"
    THEN IF ~o.visible THEN w ELSE Log(w, EvN("draw", id))
    ELSE Log(w, EvN("draw", id))

\* obj.render(ctx): what is drawn is one entry of trace
ObjRender(w, id) ==
    LET o == w.objs[id] IN
    IF o.kind = "player"
    THEN IF ~o.visible THEN w ELSE Log(w, EvN("draw", id))
    ELSE IF o.collected THEN w ELSE Log(w, EvN("draw", id))

----------------------------------------------------------------------------
(* Scene, GameScene *)

\* new GameScene()
NewGameScene ==
    [hasEngine |-> FALSE, gameObjects |-> <<>>, player |-> 0, items |-> <<>>,
     cgTriggered |-> FALSE, inits |-> 0]

\* GameEngine.addGameObject
AddGameObject(w, id) ==
    [w EXCEPT !.engine.gameObjects = Append(@, id), !.objs[id].hasEngine = TRUE]

\* GameEngine.removeGameObject
RemoveGameObject(w, id) ==
    LET index == IndexOf(w.engine.gameObjects, id) IN
    IF index > 0
    THEN [w EXCEPT !.engine.gameObjects = Splice(@, index)]
    ELSE w

\* Scene.addGameObject
SceneAddGameObject(w, s, id) ==
    LET w1 == [w EXCEPT !.scenes[s].gameObjects = Append(@, id)] IN
    IF w1.scenes[s].hasEngine THEN AddGameObject(w1, id) ELSE w1

\* the four items of GameScene.createItems: position and name
ItemSpecs ==
    << [x |-> 200, y |-> 150, name |-> 1], [x |-> 400, y |-> 300, name |-> 2],
       [x |-> 600, y |-> 200, name |-> 3], [x |-> 300, y |-> 400, name |-> 4] >>

\* GameScene.createItems from its k-th item on: each new Item with a new
\* description object (ref is the identity of that object)
RECURSIVE CreateItems(_, _, _)
CreateItems(w, s, k) ==
    IF k > Len(ItemSpecs) THEN w
    ELSE LET id == Len(w.objs) + 1
             it == NewItem(ItemSpecs[k].x, ItemSpecs[k].y, Desc(ItemSpecs[k].name, id))
             w1 == [w EXCEPT !.objs = Append(@, it)]
             w2 == SceneAddGameObject(w1, s, id)
             w3 == [w2 EXCEPT !.scenes[s].items = Append(@, id)]
         IN CreateItems(w3, s, k + 1)

\* GameScene.setupEventListeners: three new closures per call
SetupEventListeners(w, s) ==
    LET g == w.scenes[s].inits
        w1 == On(w, "itemCollected", Handler("gs.itemCollected", g))
        w2 == On(w1, "cgPlayed", Handler("gs.cgPlayed", g))
    IN On(w2, "cgEnded", Handler("gs.cgEnded", g))

\* GameScene.init; inits counts the calls
SceneInit(w, s) ==
    LET w0 == [w EXCEPT !.scenes[s].inits = @ + 1]
        id == Len(w0.objs) + 1
        w1 == [w0 EXCEPT !.objs = Append(@, NewPlayer(100, 100)),
                         !.scenes[s].player = id]
        w2 == SceneAddGameObject(w1, s, id)
    IN SetupEventListeners(CreateItems(w2, s, 1), s)

\* forEach(obj => obj.update(deltaTime)) over a list of objects, from index k
RECURSIVE UpdateAll(_, _, _, _)
UpdateAll(w, ids, k, deltaTime) ==
    IF k > Len(ids) THEN w
    ELSE UpdateAll(ObjUpdate(w, ids[k], deltaTime), ids, k + 1, deltaTime)

\* forEach(obj => obj.render(ctx))
RECURSIVE RenderAll(_, _, _)
RenderAll(w, ids, k) ==
    IF k > Len(ids) THEN w
    ELSE RenderAll(ObjRender(w, ids[k]), ids, k + 1)

\* GameScene.update: Scene.update, then a collision loop with an empty body
SceneUpdate(w, s, deltaTime) == UpdateAll(w, w.scenes[s].gameObjects, 1, deltaTime)

\* GameScene.render: the background, Scene.render's objects, then the texts
SceneRender(w, s) ==
    LET w1 == Log(w, EvN("background", 0))
        w2 == RenderAll(w1, w1.scenes[s].gameObjects, 1)
    IN Log(w2, EvN("text", 0))

----------------------------------------------------------------------------
(* GameEngine *)

\* GameEngine.addScene
AddScene(w, name, scene) ==
    [w EXCEPT !.scenes = [n \in DOMAIN w.scenes \cup {name} |->
                            IF n = name THEN [scene EXCEPT !.hasEngine = TRUE]
                            ELSE w.scenes[n]]]

\* setScene that takes whatever scenes.get(name) returns as the scene
SetSceneUnchecked(w, name) ==
    IF name \in DOMAIN w.scenes
    THEN SceneInit([w EXCEPT !.engine.currentScene = name], name)
    ELSE Log([w EXCEPT !.engine.currentScene = ""], EvN("throw", 0))

\* GameEngine.setScene
SetScene(w, name) ==
    IF name \in DOMAIN w.scenes
    THEN SceneInit([w EXCEPT !.engine.currentScene = name], name)
    ELSE w

\* update that leaves mouse.clicked as it finds it
UpdateKeepsClick(w, deltaTime) ==
    LET w0 == Log(w, EvN("update", deltaTime))
        w1 == IF w0.engine.currentScene # ""
              THEN SceneUpdate(w0, w0.engine.currentScene, deltaTime)
              ELSE w0
        w2 == UpdateAll(w1, w1.engine.gameObjects, 1, deltaTime)
    IN Log(w2, EvN("update.end", 0))

\* update that goes through the engine's own list before the scene's
UpdateGlobalFirst(w, deltaTime) ==
    LET w0 == Log(w, EvN("update", deltaTime))
        w1 == UpdateAll(w0, w0.engine.gameObjects, 1, deltaTime)
        w2 == IF w1.engine.currentScene # ""
              THEN SceneUpdate(w1, w1.engine.currentScene, deltaTime)
              ELSE w1
        w3 == [w2 EXCEPT !.engine.mouse.clicked = FALSE]
    IN Log(w3, EvN("update.end", 0))

\* GameEngine.update
Update(w, deltaTime) ==
    LET w0 == Log(w, EvN("update", deltaTime))
        w1 == IF w0.engine.currentScene # ""
              THEN SceneUpdate(w0, w0.engine.currentScene, deltaTime)
              ELSE w0
        w2 == UpdateAll(w1, w1.engine.gameObjects, 1, deltaTime)
        w3 == [w2 EXCEPT !.engine.mouse.clicked = FALSE]
    IN Log(w3, EvN("update.end", 0))

\* GameEngine.render
Render(w) ==
    LET w0 == Log(w, EvN("render", 0))
        w1 == IF w0.engine.currentScene # ""
              THEN SceneRender(w0, w0.engine.currentScene)
              ELSE w0
        w2 == RenderAll(w1, w1.engine.gameObjects, 1)
    IN Log(w2, EvN("render.end", 0))

\* requestAnimationFrame((time) => this.gameLoop(time))
RequestAnimationFrame(w) == Log([w EXCEPT !.raf = @ + 1], EvN("raf", 0))

\* gameLoop without the test of isRunning at its entry
GameLoopUnguarded(w, currentTime) ==
    LET deltaTime == currentTime - w.engine.lastTime
        w1 == [w EXCEPT !.engine.lastTime = currentTime]
        w2 == Update(w1, deltaTime)
        w3 == Render(w2)
    IN RequestAnimationFrame(w3)

\* gameLoop that renders before it updates
GameLoopRenderFirst(w, currentTime) ==
    IF ~w.engine.isRunning THEN w
    ELSE LET deltaTime == currentTime - w.engine.lastTime
             w1 == [w EXCEPT !.engine.lastTime = currentTime]
             w2 == Render(w1)
             w3 == Update(w2, deltaTime)
         IN RequestAnimationFrame(w3)

\* GameEngine.gameLoop
GameLoop(w, currentTime) ==
    IF ~w.engine.isRunning THEN w
    ELSE LET deltaTime == currentTime - w.engine.lastTime
             w1 == [w EXCEPT !.engine.lastTime = currentTime]
             w2 == Update(w1, deltaTime)
             w3 == Render(w2)
         IN RequestAnimationFrame(w3)

\* start that keeps the lastTime it finds
StartKeepsBaseline(w, now) ==
    GameLoop([w EXCEPT !.engine.isRunning = TRUE], now)

\* GameEngine.start; now is performance.now()
Start(w, now) ==
    GameLoop([w EXCEPT !.engine.isRunning = TRUE, !.engine.lastTime = now], now)

----------------------------------------------------------------------------
(* CGSystem.  overlays is the number of elements of class cg-overlay in    *)
(* the document; window.gameEngine is the engine (initGame sets it).       *)

\* new CGSystem()
NewCGSystem == [isPlaying |-> FALSE, currentCG |-> NullCG, overlays |-> 0]

\* playCG without the test of isPlaying at its entry
PlayCGUnguarded(w, cgData) ==
    LET w1 == [w EXCEPT !.engine.cgSystem.isPlaying = TRUE,
                        !.engine.cgSystem.currentCG = cgData,
                        !.engine.cgSystem.overlays = @ + 1]
        w2 == IF cgData.duration # 0
              THEN [w1 EXCEPT !.timers.close = @ + 1]
              ELSE w1
    IN Emit(w2, "cgPlayed", cgData)

\* CGSystem.playCG
PlayCG(w, cgData) ==
    IF w.engine.cgSystem.isPlaying THEN w
    ELSE LET w1 == [w EXCEPT !.engine.cgSystem.isPlaying = TRUE,
                             !.engine.cgSystem.currentCG = cgData,
                             !.engine.cgSystem.overlays = @ + 1]
             w2 == IF cgData.duration # 0
                   THEN [w1 EXCEPT !.timers.close = @ + 1]
                   ELSE w1
         IN Emit(w2, "cgPlayed", cgData)

\* closeCG that publishes cgEnded with the payload it found in currentCG
CloseCGKeepsPayload(w) ==
    LET w1 == [w EXCEPT !.engine.cgSystem.overlays = IF @ > 0 THEN @ - 1 ELSE 0,
                        !.engine.cgSystem.isPlaying = FALSE,
                        !.engine.cgSystem.currentCG = NullCG]
    IN Emit(w1, "cgEnded", w.engine.cgSystem.currentCG)

\* CGSystem.closeCG: the first overlay found is removed; currentCG is null
\* by the time it is passed to emit
CloseCG(w) ==
    LET w1 == [w EXCEPT !.engine.cgSystem.overlays = IF @ > 0 THEN @ - 1 ELSE 0,
                        !.engine.cgSystem.isPlaying = FALSE,
                        !.engine.cgSystem.currentCG = NullCG]
    IN Emit(w1, "cgEnded", w1.engine.cgSystem.currentCG)

----------------------------------------------------------------------------
(* GameScene's presentations and the inventory's use of an item *)

\* the payloads of triggerCG and of triggerCompletionCG
ScrollCG == CgData(2, 5000)
CompletionCG == CgData(4, 6000)

\* the name createItems gives the scroll, the item whose onUse is triggerCG
ScrollName == 4

\* GameScene.triggerCG
TriggerCG(w) == PlayCG(w, ScrollCG)

\* GameScene.triggerCompletionCG
TriggerCompletionCG(w) ==
    PlayCG([w EXCEPT !.scenes["game"].cgTriggered = TRUE], CompletionCG)

\* the click listener updateUI puts on the k-th element of the inventory:
\* item.onUse(), which is triggerCG for the scroll and shows a dialogue for
\* the other items
UseItem(w, k) ==
    IF w.items[k].onUse /\ w.items[k].name = ScrollName THEN TriggerCG(w) ELSE w

----------------------------------------------------------------------------
(* GameMenu *)

\* JSON.stringify of an item description: its functions (onUse) are left
\* out, and the text says nothing of the object's identity
Stringify(its) == [k \in 1..Len(its) |-> [name |-> its[k].name]]

\* JSON.parse: new objects
Parse(text) ==
    [k \in 1..Len(text) |-> [name |-> text[k].name, ref |-> 0 - k, onUse |-> FALSE]]

\* GameMenu.saveGame (showNotification only shows and later removes a DOM
\* element; the timestamp is not read back)
SaveGame(w) ==
    [w EXCEPT !.store = [kind |-> "save", inventory |-> Stringify(w.items)]]

\* GameMenu.hide
Hide(w) == [w EXCEPT !.menu.visible = FALSE]

\* what localStorage may hold that saveGame did not write: text that
\* JSON.parse rejects, the text null, a record with no inventory field ({}),
\* a record whose inventory is the list [null]
Malformed == {"unparsable", "null", "noinventory", "badlist"}
BadSave(kind) == [kind |-> kind, inventory |-> <<>>]

\* GameMenu.loadGame: JSON.parse throws inside the try on unparsable text;
\* otherwise the callback is scheduled with the parsed data
LoadGame(w) ==
    IF w.store.kind = "absent" \/ w.store.kind = "unparsable"
    THEN w
    ELSE LET data == [kind |-> w.store.kind,
                      inventory |-> IF w.store.kind = "badlist" THEN <<Null>>
                                    ELSE Parse(w.store.inventory)]
         IN [w EXCEPT !.timers.load = Append(@, data)]

\* a load callback that appends the saved list to the inventory's instead of
\* replacing it
LoadCallbackAppends(w, data, now) ==
    LET w1 == Start(SetScene(Hide(w), "game"), now) IN
    [w1 EXCEPT !.items = @ \o data.inventory]

\* the callback loadGame passes to setTimeout, with the data it captured.
\* An array is truthy.  data.inventory throws when data is null; undefined
\* is falsy; updateUI throws on the null of [null] (item.icon) after the
\* list was assigned.  The callback runs outside loadGame's try.
LoadCallback(w, data, now) ==
    LET w1 == Start(SetScene(Hide(w), "game"), now) IN
    CASE data.kind = "null" -> Log(w1, EvN("throw", 0))
      [] data.kind = "noinventory" -> w1
      [] data.kind = "badlist" ->
            Log([w1 EXCEPT !.items = data.inventory], EvN("throw", 0))
      [] OTHER -> [w1 EXCEPT !.items = data.inventory]

\* GameMenu.startGame
StartGame(w, now) == Start(SetScene(Hide(w), "game"), now)

\* show without the call of engine.stop()
ShowKeepsRunning(w) == [w EXCEPT !.menu.visible = TRUE]

\* GameMenu.show
Show(w) == Stop([w EXCEPT !.menu.visible = TRUE])

\* GameMenu.toggle
Toggle(w) == IF w.menu.visible THEN Hide(w) ELSE Show(w)

\* the keydown listeners, in the order they were added: GameEngine's,
\* GameMenu's (it moves the highlight or clicks the highlighted button, which
\* are the menu's button actions), GameEngineWithMenu's
KeyDown(w, code) ==
    LET w1 == [w EXCEPT !.engine.keys = @ \cup {code}]
        w2 == Emit(w1, "keydown", [code |-> code])
    IN IF code = "Escape" /\ ~w2.menu.visible THEN Show(w2) ELSE w2

\* the callback of setInterval in GameEngineWithMenu
AutoSave(w) == IF ~w.menu.visible THEN SaveGame(w) ELSE w

----------------------------------------------------------------------------
(* The event bus used by a client: on, emit, off in any order *)

\* new GameEngine(canvasId)
InitEngine ==
    [isRunning |-> FALSE, lastTime |-> 0, currentScene |-> "", keys |-> {},
     mouse |-> [x |-> 0, y |-> 0, clicked |-> FALSE], gameObjects |-> <<>>,
     cgSystem |-> NewCGSystem]

\* subcnt, a history variable: per channel and handler id, live is the number
\* of subscriptions not yet undone by an unsubscription, and undone says
\* that the last of them was undone
NoSubscriptions ==
    [c \in BusChannels |-> [i \in 1..NumHandlers |-> [live |-> 0, undone |-> FALSE]]]

InitBus ==
    /\ engine = InitEngine
    /\ scenes = <<>>
    /\ objs = <<>>
    /\ events = [c \in Channels |-> NoChannel]
    /\ items = <<>>
    /\ menu = [visible |-> TRUE]
    /\ store = NoSave
    /\ raf = 0
    /\ timers = NoTimers
    /\ clock = NoClock
    /\ trace = <<>>
    /\ op = NoOp
    /\ subcnt = NoSubscriptions

BusOn ==
    \E c \in BusChannels, h \in LogHandlers :
        /\ Len(events[c].cbs) < MaxSubs
        /\ Commit(On(W, c, h))
        /\ op' = Op("on", c, h, Null, TRUE)
        /\ subcnt' = [subcnt EXCEPT ![c][h.id] = [live |-> @.live + 1, undone |-> FALSE]]

BusEmit ==
    \E c \in BusChannels, d \in Payloads :
        /\ Commit(Emit(W, c, d))
        /\ op' = Op("emit", c, NoHandler, d, TRUE)
        /\ UNCHANGED subcnt

BusOff ==
    \E c \in BusChannels, h \in LogHandlers :
        /\ Commit(Off(W, c, h))
        /\ op' = Op("off", c, h, Null, TRUE)
        /\ subcnt' = [subcnt EXCEPT ![c][h.id] =
                        IF @.live > 0
                        THEN [live |-> @.live - 1, undone |-> @.live = 1]
                        ELSE @]

NextBus == BusOn \/ BusEmit \/ BusOff

SpecBus == InitBus /\ [][NextBus]_vars

----------------------------------------------------------------------------
(* The engine driven by its host and a client: initGame has built the      *)
(* engine and registered the scene "game"; then setScene, start, stop,     *)
(* frame callbacks, pointer events and a client's subscription arrive in   *)
(* any order.                                                              *)

SceneNames == {"game", "cave"}

\* where the pointer is moved to: off every item, and on the first item
MousePoints == {<<0, 0>>, <<Px(200), Px(150)>>}

\* initGame: new GameEngine, addScene('game', new GameScene())
InitWorld ==
    AddScene([engine |-> InitEngine, scenes |-> <<>>, objs |-> <<>>,
              events |-> [c \in Channels |-> NoChannel], items |-> <<>>,
              menu |-> [visible |-> TRUE], store |-> NoSave,
              raf |-> 0, timers |-> NoTimers, trace |-> <<>>],
             "game", NewGameScene)

InitLoop ==
    /\ engine = InitWorld.engine
    /\ scenes = InitWorld.scenes
    /\ objs = InitWorld.objs
    /\ events = InitWorld.events
    /\ items = InitWorld.items
    /\ menu = InitWorld.menu
    /\ store = InitWorld.store
    /\ raf = InitWorld.raf
    /\ timers = InitWorld.timers
    /\ clock = NoClock
    /\ trace = <<>>
    /\ op = NoOp
    /\ subcnt = NoSubscriptions

\* engine.setScene(name)
LoopSetScene ==
    \E name \in SceneNames :
        /\ name \in DOMAIN scenes => scenes[name].inits < MaxInits
        /\ Commit(SetScene(W, name))
        /\ op' = Op("setScene", name, NoHandler, Null, FALSE)
        /\ UNCHANGED subcnt

\* engine.start()
LoopStart ==
    \E now \in 0..MaxTime :
        /\ raf < MaxRaf
        /\ Commit(Start(W, now))
        /\ op' = OpN("start", now)
        /\ UNCHANGED subcnt

\* engine.stop()
LoopStop ==
    /\ Commit(Stop(W))
    /\ op' = OpN("stop", 0)
    /\ UNCHANGED subcnt

\* the host runs one outstanding frame callback, with the frame's timestamp
LoopFrame ==
    \E time \in 0..MaxTime :
        /\ raf > 0
        /\ Commit(GameLoop([W EXCEPT !.raf = @ - 1], time))
        /\ op' = OpN("frame", time)
        /\ UNCHANGED subcnt

\* the canvas' mousemove listener
MouseMove(w, p) == [w EXCEPT !.engine.mouse.x = p[1], !.engine.mouse.y = p[2]]

\* the canvas' click listener
Click(w) ==
    LET w1 == [w EXCEPT !.engine.mouse.clicked = TRUE] IN
    Emit(w1, "click", [x |-> w1.engine.mouse.x, y |-> w1.engine.mouse.y])

LoopMouseMove ==
    \E p \in MousePoints :
        /\ Commit(MouseMove(W, p))
        /\ op' = OpN("mousemove", 0)
        /\ UNCHANGED subcnt

LoopClick ==
    /\ Commit(Click(W))
    /\ op' = OpN("click", 0)
    /\ UNCHANGED subcnt

\* a client subscribes a handler that stops the engine to itemCollected
LoopSubscribeStop ==
    /\ \A k \in 1..Len(events["itemCollected"].cbs) :
            events["itemCollected"].cbs[k].kind # "stop"
    /\ Commit(On(W, "itemCollected", Handler("stop", 1)))
    /\ op' = Op("on", "itemCollected", Handler("stop", 1), Null, FALSE)
    /\ UNCHANGED subcnt

NextLoop ==
    \/ LoopSetScene
    \/ LoopStart
    \/ LoopStop
    \/ LoopFrame
    \/ LoopMouseMove
    \/ LoopClick
    \/ LoopSubscribeStop

SpecLoop == InitLoop /\ [][NextLoop]_vars

----------------------------------------------------------------------------
(* The inventory used by a client: addItem and removeItem in any order *)

InvAddItem ==
    \E d \in InvDescs :
        LET r == AddItem(W, d) IN
        /\ Commit(r.w)
        /\ op' = Op("addItem", "", NoHandler, d, r.ret)
        /\ UNCHANGED subcnt

InvRemoveItem ==
    \E d \in InvDescs :
        LET r == RemoveItem(W, d) IN
        /\ Commit(r.w)
        /\ op' = Op("removeItem", "", NoHandler, d, r.ret)
        /\ UNCHANGED subcnt

NextInv == InvAddItem \/ InvRemoveItem

SpecInv == InitLoop /\ [][NextInv]_vars

----------------------------------------------------------------------------
(* engine.update and engine.render called by a client, between pointer     *)
(* events, setScene and the client's own use of the inventory              *)

\* the item description the client adds and removes
Filler == Desc(1, 0)

UpSetScene ==
    \E name \in SceneNames :
        /\ name \in DOMAIN scenes => scenes[name].inits < MaxInits
        /\ Commit(SetScene(W, name))
        /\ op' = Op("setScene", name, NoHandler, Null, FALSE)
        /\ UNCHANGED subcnt

UpUpdate ==
    \E deltaTime \in 0..MaxTime :
        /\ Commit(Update(W, deltaTime))
        /\ op' = OpN("update", deltaTime)
        /\ UNCHANGED subcnt

UpRender ==
    /\ Commit(Render(W))
    /\ op' = OpN("render", 0)
    /\ UNCHANGED subcnt

UpAddItem ==
    LET r == AddItem(W, Filler) IN
    /\ Commit(r.w)
    /\ op' = Op("addItem", "", NoHandler, Filler, r.ret)
    /\ UNCHANGED subcnt

UpRemoveItem ==
    LET r == RemoveItem(W, Filler) IN
    /\ Commit(r.w)
    /\ op' = Op("removeItem", "", NoHandler, Filler, r.ret)
    /\ UNCHANGED subcnt

NextUpdate ==
    \/ UpSetScene
    \/ LoopMouseMove
    \/ LoopClick
    \/ UpUpdate
    \/ UpRender
    \/ UpAddItem
    \/ UpRemoveItem

SpecUpdate == InitLoop /\ [][NextUpdate]_vars

----------------------------------------------------------------------------
(* The game as script.js wires it: initGame has built a GameEngineWithMenu *)
(* and registered the scene "game", the menu is shown, the pointer rests   *)
(* where createItems puts the first item.  localStorage may hold the save  *)
(* of an earlier session.  Then the menu's start and load buttons, the     *)
(* Escape key, clicks, frame callbacks, the load callback and the autosave *)
(* interval arrive in any order, and a client adds to the inventory when   *)
(* it is nearly full and removes from it.  (The exit button saves like the *)
(* autosave does and closes the window.)                                   *)

\* the save an earlier session has left: k items, named as createItems
\* names them
EarlierSave(k) ==
    [kind |-> "save",
     inventory |-> [i \in 1..k |-> [name |-> ((i - 1) % Len(ItemSpecs)) + 1]]]

InitGame ==
    /\ engine = MouseMove(InitWorld, <<Px(200), Px(150)>>).engine
    /\ scenes = InitWorld.scenes
    /\ objs = InitWorld.objs
    /\ events = InitWorld.events
    /\ items = InitWorld.items
    /\ menu = InitWorld.menu
    /\ store \in {NoSave, EarlierSave(maxItems - 1), EarlierSave(maxItems)}
    /\ raf = InitWorld.raf
    /\ timers = InitWorld.timers
    /\ clock = NoClock
    /\ trace = <<>>
    /\ op = NoOp
    /\ subcnt = NoSubscriptions

\* the menu's start button
GameStartGame ==
    /\ menu.visible
    /\ scenes["game"].inits < MaxInits
    /\ raf < MaxRaf
    /\ Commit(StartGame(W, 0))
    /\ op' = OpN("startGame", 0)
    /\ UNCHANGED subcnt

\* the menu's load button
GameLoadGame ==
    /\ menu.visible
    /\ Len(timers.load) < MaxLoads
    /\ Commit(LoadGame(W))
    /\ op' = OpN("loadGame", 0)
    /\ UNCHANGED subcnt

\* the host runs the oldest load callback
GameLoadTimer ==
    /\ Len(timers.load) > 0
    /\ scenes["game"].inits < MaxInits
    /\ raf < MaxRaf
    /\ Commit(LoadCallback([W EXCEPT !.timers.load = Tail(@)], Head(timers.load), 0))
    /\ op' = OpN("loadTimer", 0)
    /\ UNCHANGED subcnt

\* the Escape key goes down
GameEscape ==
    /\ Commit(KeyDown(W, "Escape"))
    /\ op' = OpN("escape", 0)
    /\ UNCHANGED subcnt

\* the host runs one outstanding frame callback
GameFrame ==
    /\ raf > 0
    /\ Commit(GameLoop([W EXCEPT !.raf = @ - 1], 0))
    /\ op' = OpN("frame", 0)
    /\ UNCHANGED subcnt

\* the autosave interval of GameEngineWithMenu
GameAutoSave ==
    /\ Commit(AutoSave(W))
    /\ op' = OpN("autoSave", 0)
    /\ UNCHANGED subcnt

\* a client's addItem, called when at most MaxSpare places are free
GameAddItem ==
    LET r == AddItem(W, Filler) IN
    /\ Len(items) + MaxSpare >= maxItems
    /\ Commit(r.w)
    /\ op' = Op("addItem", "", NoHandler, Filler, r.ret)
    /\ UNCHANGED subcnt

NextGame ==
    \/ GameStartGame
    \/ GameLoadGame
    \/ GameLoadTimer
    \/ GameEscape
    \/ GameFrame
    \/ LoopClick
    \/ GameAutoSave
    \/ GameAddItem
    \/ UpRemoveItem

SpecGame == InitGame /\ [][NextGame]_vars

----------------------------------------------------------------------------
(* The overlay presenter used by a client and by the host's timers: the    *)
(* scene is set (its listeners subscribe to cgPlayed and cgEnded), playCG  *)
(* and closeCG are called, the close button is the same call, closing      *)
(* timers fire.                                                            *)

\* the payloads requested: without a duration, and with the duration
\* GameScene.triggerCG gives
CGPayloads == {CgData(1, 0), CgData(2, 5000), CgData(3, 5000)}

CGPlay ==
    \E d \in CGPayloads :
        /\ timers.close < MaxCloseTimers
        /\ Commit(PlayCG(W, d))
        /\ op' = Op("playCG", "", NoHandler, d, FALSE)
        /\ UNCHANGED subcnt

CGClose ==
    /\ Commit(CloseCG(W))
    /\ op' = OpN("closeCG", 0)
    /\ UNCHANGED subcnt

\* the host runs one closing timer
CGCloseTimer ==
    /\ timers.close > 0
    /\ Commit(CloseCG([W EXCEPT !.timers.close = @ - 1]))
    /\ op' = OpN("closeTimer", 0)
    /\ UNCHANGED subcnt

\* a client subscribes a recording handler to cgEnded, once
CGSubscribe ==
    /\ \A k \in 1..Len(events["cgEnded"].cbs) : events["cgEnded"].cbs[k].kind # "log"
    /\ Commit(On(W, "cgEnded", Handler("log", 1)))
    /\ op' = Op("on", "cgEnded", Handler("log", 1), Null, FALSE)
    /\ UNCHANGED subcnt

NextCG ==
    \/ UpSetScene
    \/ CGSubscribe
    \/ CGPlay
    \/ CGClose
    \/ CGCloseTimer

SpecCG == InitLoop /\ [][NextCG]_vars

----------------------------------------------------------------------------
(* isColliding on two entities of any position and size of a small grid,   *)
(* called on either of them                                                *)

Rects ==
    {NewGameObject(x, y, width, height) :
        x \in 0..MaxCoord, y \in 0..MaxCoord,
        width \in 0..MaxSize, height \in 0..MaxSize}

InitGeom ==
    /\ engine = InitWorld.engine
    /\ scenes = InitWorld.scenes
    /\ objs \in {<<a, b>> : a \in Rects, b \in Rects}
    /\ events = InitWorld.events
    /\ items = InitWorld.items
    /\ menu = InitWorld.menu
    /\ store = InitWorld.store
    /\ raf = InitWorld.raf
    /\ timers = InitWorld.timers
    /\ clock = NoClock
    /\ trace = <<>>
    /\ op = NoOp
    /\ subcnt = NoSubscriptions

\* objs[this].isColliding(objs[other]); op keeps this and the value returned
GeomIsColliding ==
    \E this \in 1..2 :
        /\ op' = [OpN("isColliding", this) EXCEPT
                    !.ret = IsColliding(objs[this], objs[3 - this])]
        /\ UNCHANGED <<engine, scenes, objs, events, items, menu, store, raf,
                       timers, clock, trace, subcnt>>

NextGeom == GeomIsColliding

SpecGeom == InitGeom /\ [][NextGeom]_vars

----------------------------------------------------------------------------
(* Item.update of one item attached to the engine, the pointer moved on,   *)
(* inside and just outside the item's rectangle and clicked                *)

\* pointer offsets from the item's corner on one axis, in px: around each
\* edge, and the middle
HoverOffsets ==
    ((0 - HoverMargin)..HoverMargin) \cup {ItemSize \div 2}
        \cup ((ItemSize - HoverMargin)..(ItemSize + HoverMargin))

\* the engine with the k-th item of createItems added to it
HoverWorld(k) ==
    AddGameObject(
        [InitWorld EXCEPT !.objs = <<NewItem(ItemSpecs[k].x, ItemSpecs[k].y,
                                             Desc(ItemSpecs[k].name, 1))>>], 1)

InitHover ==
    \E k \in 1..Len(ItemSpecs) :
        /\ engine = HoverWorld(k).engine
        /\ scenes = HoverWorld(k).scenes
        /\ objs = HoverWorld(k).objs
        /\ events = HoverWorld(k).events
        /\ items = HoverWorld(k).items
        /\ menu = HoverWorld(k).menu
        /\ store = HoverWorld(k).store
        /\ raf = HoverWorld(k).raf
        /\ timers = HoverWorld(k).timers
        /\ clock = NoClock
        /\ trace = <<>>
        /\ op = NoOp
        /\ subcnt = NoSubscriptions

HoverMouseMove ==
    \E dx \in HoverOffsets, dy \in HoverOffsets :
        /\ Commit(MouseMove(W, <<objs[1].x + Px(dx), objs[1].y + Px(dy)>>))
        /\ op' = OpN("mousemove", 0)
        /\ UNCHANGED subcnt

\* objs[1].update(deltaTime)
HoverUpdate ==
    /\ Commit(ItemUpdate(W, 1))
    /\ op' = OpN("item.update", 1)
    /\ UNCHANGED subcnt

NextHover ==
    \/ HoverMouseMove
    \/ LoopClick
    \/ HoverUpdate

SpecHover == InitHover /\ [][NextHover]_vars

----------------------------------------------------------------------------
(* Player.update of one player, placed anywhere by its constructor, with   *)
(* any of the movement keys held, for frame times of any sign and size     *)

DeltaTimes == {0 - HugeDelta, 0 - StepDelta, 0, StepDelta, HugeDelta}

\* the keys held: any of the arrows, or any of W, A, S, D
KeySets ==
    (SUBSET {"ArrowLeft", "ArrowRight", "ArrowUp", "ArrowDown"})
        \cup (SUBSET {"KeyA", "KeyD", "KeyW", "KeyS"})

\* where new Player(x, y) is put, in px: left of or above the surface,
\* inside it, right of or below it
PriorXs == {0 - 50, 100, CanvasWidth}
PriorYs == {0 - 50, 100, CanvasHeight}

\* the engine with keys held and a new Player(x, y), added to it or not
PlayerWorld(x, y, keys, attached) ==
    LET w == [InitWorld EXCEPT !.objs = <<NewPlayer(x, y)>>, !.engine.keys = keys]
    IN IF attached THEN AddGameObject(w, 1) ELSE w

InitPlayer ==
    \E x \in PriorXs, y \in PriorYs, keys \in KeySets, attached \in BOOLEAN :
        LET w == PlayerWorld(x, y, keys, attached) IN
        /\ engine = w.engine
        /\ scenes = w.scenes
        /\ objs = w.objs
        /\ events = w.events
        /\ items = w.items
        /\ menu = w.menu
        /\ store = w.store
        /\ raf = w.raf
        /\ timers = w.timers
        /\ clock = NoClock
        /\ trace = <<>>
        /\ op = NoOp
        /\ subcnt = NoSubscriptions

\* objs[1].update(deltaTime)
PlayerStep ==
    \E deltaTime \in DeltaTimes :
        /\ Commit(PlayerUpdate(W, 1, deltaTime))
        /\ op' = OpN("player.update", deltaTime)
        /\ UNCHANGED subcnt

NextPlayer == PlayerStep

SpecPlayer == InitPlayer /\ [][NextPlayer]_vars

----------------------------------------------------------------------------
(* Loading from a store that may hold anything: the menu's load button,    *)
(* the load callback and Escape, with a client filling the inventory       *)

InitLoad ==
    /\ engine = InitWorld.engine
    /\ scenes = InitWorld.scenes
    /\ objs = InitWorld.objs
    /\ events = InitWorld.events
    /\ items = InitWorld.items
    /\ menu = InitWorld.menu
    /\ store \in {NoSave, EarlierSave(1)} \cup {BadSave(k) : k \in Malformed}
    /\ raf = InitWorld.raf
    /\ timers = InitWorld.timers
    /\ clock = NoClock
    /\ trace = <<>>
    /\ op = NoOp
    /\ subcnt = NoSubscriptions

NextLoad ==
    \/ GameLoadGame
    \/ GameLoadTimer
    \/ GameEscape
    \/ UpAddItem

SpecLoad == InitLoad /\ [][NextLoad]_vars

----------------------------------------------------------------------------
(* The engine and its bus used by a client that names scenes and channels  *)
(* that may not be there: setScene, on, emit, off in any order             *)

\* the client's one handler and one payload
MissingOn ==
    \E c \in BusChannels :
        /\ Len(events[c].cbs) < MaxSubs
        /\ Commit(On(W, c, Handler("log", 1)))
        /\ op' = Op("on", c, Handler("log", 1), Null, TRUE)
        /\ UNCHANGED subcnt

MissingEmit ==
    \E c \in BusChannels :
        /\ Commit(Emit(W, c, Desc(1, 0)))
        /\ op' = Op("emit", c, NoHandler, Desc(1, 0), TRUE)
        /\ UNCHANGED subcnt

MissingOff ==
    \E c \in BusChannels :
        /\ Commit(Off(W, c, Handler("log", 1)))
        /\ op' = Op("off", c, Handler("log", 1), Null, TRUE)
        /\ UNCHANGED subcnt

NextMissing ==
    \/ LoopSetScene
    \/ MissingOn
    \/ MissingEmit
    \/ MissingOff

SpecMissing == InitLoop /\ [][NextMissing]_vars

----------------------------------------------------------------------------
(* The menu and the scheduler: the start and load buttons, the load        *)
(* callback, Escape and frame callbacks in any order, with a client that   *)
(* calls the menu's show, hide and toggle; the store may hold anything     *)

MenuShow ==
    /\ Commit(Show(W))
    /\ op' = OpN("show", 0)
    /\ UNCHANGED subcnt

MenuHide ==
    /\ Commit(Hide(W))
    /\ op' = OpN("hide", 0)
    /\ UNCHANGED subcnt

MenuToggle ==
    /\ Commit(Toggle(W))
    /\ op' = OpN("toggle", 0)
    /\ UNCHANGED subcnt

NextMenu ==
    \/ GameStartGame
    \/ GameLoadGame
    \/ GameLoadTimer
    \/ GameEscape
    \/ GameFrame
    \/ MenuShow
    \/ MenuHide
    \/ MenuToggle

SpecMenu == InitLoad /\ [][NextMenu]_vars

----------------------------------------------------------------------------
(* Collecting: the pointer rests on the first item of createItems, the     *)
(* scene is set, clicks and engine.update arrive, and a client adds to the *)
(* inventory                                                               *)

InitCollect ==
    /\ engine = MouseMove(InitWorld, <<Px(200), Px(150)>>).engine
    /\ scenes = InitWorld.scenes
    /\ objs = InitWorld.objs
    /\ events = InitWorld.events
    /\ items = InitWorld.items
    /\ menu = InitWorld.menu
    /\ store = InitWorld.store
    /\ raf = InitWorld.raf
    /\ timers = InitWorld.timers
    /\ clock = NoClock
    /\ trace = <<>>
    /\ op = NoOp
    /\ subcnt = NoSubscriptions

\* engine.setScene('game')
CollectSetScene ==
    /\ scenes["game"].inits < MaxInits
    /\ Commit(SetScene(W, "game"))
    /\ op' = Op("setScene", "game", NoHandler, Null, FALSE)
    /\ UNCHANGED subcnt

\* engine.update(0)
CollectUpdate ==
    /\ Commit(Update(W, 0))
    /\ op' = OpN("update", 0)
    /\ UNCHANGED subcnt

NextCollect ==
    \/ CollectSetScene
    \/ LoopClick
    \/ CollectUpdate
    \/ UpAddItem

SpecCollect == InitCollect /\ [][NextCollect]_vars

----------------------------------------------------------------------------
(* engine.render with entities a client has hidden: setScene, then the     *)
(* client writes the visible field of the scene's player or of its first   *)
(* item, and engine.render is called                                       *)

\* obj.visible = v
SetVisible(w, id, v) == [w EXCEPT !.objs[id].visible = v]

RenderSetVisible ==
    /\ scenes["game"].inits > 0
    /\ \E id \in {scenes["game"].player, scenes["game"].items[1]}, v \in BOOLEAN :
          /\ Commit(SetVisible(W, id, v))
          /\ op' = OpN(IF v THEN "show" ELSE "hide", id)
          /\ UNCHANGED subcnt

NextRender ==
    \/ CollectSetScene
    \/ RenderSetVisible
    \/ LoopClick
    \/ CollectUpdate
    \/ UpRender

SpecRender == InitCollect /\ [][NextRender]_vars

----------------------------------------------------------------------------
(* The game being played: the scene is set, the pointer moves from item to *)
(* item, clicks and engine.update arrive, inventory entries are clicked,   *)
(* and the host fires the timers that were set: each timer set does fire   *)

CompletionWorld == SetScene(InitWorld, "game")

InitCompletion ==
    /\ engine = CompletionWorld.engine
    /\ scenes = CompletionWorld.scenes
    /\ objs = CompletionWorld.objs
    /\ events = CompletionWorld.events
    /\ items = CompletionWorld.items
    /\ menu = CompletionWorld.menu
    /\ store = CompletionWorld.store
    /\ raf = CompletionWorld.raf
    /\ timers = CompletionWorld.timers
    /\ clock = NoClock
    /\ trace = <<>>
    /\ op = NoOp
    /\ subcnt = NoSubscriptions

\* the pointer moves onto the k-th item of createItems
CompletionMouseMove ==
    \E k \in 1..Len(ItemSpecs) :
        /\ Commit(MouseMove(W, <<Px(ItemSpecs[k].x), Px(ItemSpecs[k].y)>>))
        /\ op' = OpN("mousemove", k)
        /\ UNCHANGED subcnt

\* a click on an entry of the inventory
CompletionUseItem ==
    \E k \in 1..Len(items) :
        /\ timers.close < MaxCloseTimers
        /\ Commit(UseItem(W, k))
        /\ op' = OpN("useItem", k)
        /\ UNCHANGED subcnt

\* the host runs one completion timer
CompletionTimer ==
    /\ timers.completion > 0
    /\ Commit(TriggerCompletionCG([W EXCEPT !.timers.completion = @ - 1]))
    /\ op' = OpN("completionTimer", 0)
    /\ UNCHANGED subcnt

NextCompletion ==
    \/ CompletionMouseMove
    \/ LoopClick
    \/ CollectUpdate
    \/ CompletionUseItem
    \/ CompletionTimer
    \/ CGCloseTimer

SpecCompletion ==
    /\ InitCompletion
    /\ [][NextCompletion]_vars
    /\ WF_vars(CompletionTimer)
    /\ WF_vars(CGCloseTimer)

----------------------------------------------------------------------------
(* The engine's list and the scenes' lists used by a client: addScene,     *)
(* scene.addGameObject and engine.addGameObject with a new GameObject or   *)
(* one added before, engine.removeGameObject, in any order                 *)

MaxObjs == 2

ListsAddScene ==
    \E name \in SceneNames :
        /\ Commit(AddScene(W, name, NewGameScene))
        /\ op' = Op("addScene", name, NoHandler, Null, FALSE)
        /\ UNCHANGED subcnt

\* scene.addGameObject(obj), obj new or known
ListsSceneAdd ==
    \E s \in DOMAIN scenes, id \in 1..(Len(objs) + 1) :
        LET w == IF id > Len(objs)
                 THEN [W EXCEPT !.objs = Append(@, NewGameObject(0, 0, Px(1), Px(1)))]
                 ELSE W
        IN /\ id <= MaxObjs
           /\ Len(scenes[s].gameObjects) < MaxObjs
           /\ Len(engine.gameObjects) < MaxObjs
           /\ Commit(SceneAddGameObject(w, s, id))
           /\ op' = Op("scene.addGameObject", s, NoHandler, Null, FALSE)
           /\ UNCHANGED subcnt

\* engine.addGameObject(obj), obj new or known
ListsEngineAdd ==
    \E id \in 1..(Len(objs) + 1) :
        LET w == IF id > Len(objs)
                 THEN [W EXCEPT !.objs = Append(@, NewGameObject(0, 0, Px(1), Px(1)))]
                 ELSE W
        IN /\ id <= MaxObjs
           /\ Len(engine.gameObjects) < MaxObjs
           /\ Commit(AddGameObject(w, id))
           /\ op' = OpN("addGameObject", id)
           /\ UNCHANGED subcnt

\* engine.removeGameObject(obj)
ListsRemove ==
    \E id \in 1..Len(objs) :
        /\ Commit(RemoveGameObject(W, id))
        /\ op' = OpN("removeGameObject", id)
        /\ UNCHANGED subcnt

NextLists ==
    \/ ListsAddScene
    \/ ListsSceneAdd
    \/ ListsEngineAdd
    \/ ListsRemove

SpecLists == InitLoop /\ [][NextLists]_vars

----------------------------------------------------------------------------
(* engine.update with an entity that is in the engine's list only: a       *)
(* client has added an Item to the engine where createItems puts the       *)
(* scene's first item; then setScene, pointer events and engine.update     *)

OrderWorld == MouseMove(HoverWorld(1), <<Px(200), Px(150)>>)

InitOrder ==
    /\ engine = OrderWorld.engine
    /\ scenes = OrderWorld.scenes
    /\ objs = OrderWorld.objs
    /\ events = OrderWorld.events
    /\ items = OrderWorld.items
    /\ menu = OrderWorld.menu
    /\ store = OrderWorld.store
    /\ raf = OrderWorld.raf
    /\ timers = OrderWorld.timers
    /\ clock = NoClock
    /\ trace = <<>>
    /\ op = NoOp
    /\ subcnt = NoSubscriptions

NextOrder ==
    \/ CollectSetScene
    \/ LoopMouseMove
    \/ LoopClick
    \/ CollectUpdate

SpecOrder == InitOrder /\ [][NextOrder]_vars

----------------------------------------------------------------------------
(* The bus with longer lists: a client subscribes handlers, the same one   *)
(* more than once, up to MaxList per channel, unsubscribes and publishes   *)

MaxList == 3

ListOn ==
    \E c \in BusChannels, h \in LogHandlers :
        /\ Len(events[c].cbs) < MaxList
        /\ Commit(On(W, c, h))
        /\ op' = Op("on", c, h, Null, TRUE)
        /\ UNCHANGED subcnt

ListOff ==
    \E c \in BusChannels, h \in LogHandlers :
        /\ Commit(Off(W, c, h))
        /\ op' = Op("off", c, h, Null, TRUE)
        /\ UNCHANGED subcnt

NextList ==
    \/ ListOn
    \/ ListOff
    \/ MissingEmit

SpecList == InitBus /\ [][NextList]_vars

----------------------------------------------------------------------------
(* The loop in the host's time: time passes, start() and stop() are        *)
(* called, and the host runs frame callbacks, each with the time at which  *)
(* it runs                                                                 *)

MaxClock == 4

PauseAdvance ==
    /\ clock.now < MaxClock
    /\ Commit([W EXCEPT !.clock.now = @ + 1])
    /\ op' = OpN("advance", clock.now + 1)
    /\ UNCHANGED subcnt

\* engine.start()
PauseStart ==
    /\ raf < MaxRaf
    /\ Commit(Start([W EXCEPT !.clock.started = clock.now], clock.now))
    /\ op' = OpN("start", clock.now)
    /\ UNCHANGED subcnt

\* engine.stop()
PauseStop ==
    /\ Commit(Stop([W EXCEPT !.clock.stopped = clock.now]))
    /\ op' = OpN("stop", clock.now)
    /\ UNCHANGED subcnt

\* the host runs one outstanding frame callback
PauseFrame ==
    /\ raf > 0
    /\ Commit(GameLoop([W EXCEPT !.raf = @ - 1], clock.now))
    /\ op' = OpN("frame", clock.now)
    /\ UNCHANGED subcnt

NextPause ==
    \/ PauseAdvance
    \/ PauseStart
    \/ PauseStop
    \/ PauseFrame

SpecPause == InitLoop /\ [][NextPause]_vars

----------------------------------------------------------------------------
(* The bus with handlers that use it while they are called: a client       *)
(* subscribes recording handlers, one that unsubscribes itself and one     *)
(* that subscribes another, and publishes                                  *)

ReentrantHandlers == LogHandlers \cup {Handler("unsub", 1), Handler("sub", 1)}

ReentrantOn ==
    \E h \in ReentrantHandlers :
        /\ Len(events["itemCollected"].cbs) < MaxList
        /\ Commit(On(W, "itemCollected", h))
        /\ op' = Op("on", "itemCollected", h, Null, TRUE)
        /\ UNCHANGED subcnt

ReentrantOff ==
    \E h \in ReentrantHandlers :
        /\ Commit(Off(W, "itemCollected", h))
        /\ op' = Op("off", "itemCollected", h, Null, TRUE)
        /\ UNCHANGED subcnt

ReentrantEmit ==
    /\ Commit(Emit(W, "itemCollected", Desc(1, 0)))
    /\ op' = Op("emit", "itemCollected", NoHandler, Desc(1, 0), TRUE)
    /\ UNCHANGED subcnt

NextReentrant ==
    \/ ReentrantOn
    \/ ReentrantOff
    \/ ReentrantEmit

SpecReentrant == InitBus /\ [][NextReentrant]_vars

----------------------------------------------------------------------------
(* What a handler did, read from trace *)

\* the positions of the entries e in tr
Idx(tr, e) == {k \in 1..Len(tr) : tr[k].ev = e}
TraceHas(tr, e) == Idx(tr, e) # {}

\* tr is the trace of one executed tick: one update, then one render, then
\* nothing but the rescheduling; every object update and every callback
\* inside the update, every drawing call inside the render
TickOrdered(tr) ==
    /\ Cardinality(Idx(tr, "update")) = 1
    /\ Cardinality(Idx(tr, "update.end")) = 1
    /\ Cardinality(Idx(tr, "render")) = 1
    /\ Cardinality(Idx(tr, "render.end")) = 1
    /\ \A u \in Idx(tr, "update"), ue \in Idx(tr, "update.end"),
          r \in Idx(tr, "render"), re \in Idx(tr, "render.end") :
            /\ u = 1 /\ r = ue + 1
            /\ \A k \in 1..Len(tr) :
                 /\ tr[k].ev \in {"obj.update", "call"} => u < k /\ k < ue
                 /\ tr[k].ev \in {"background", "draw", "text"} => r < k /\ k < re
                 /\ tr[k].ev = "raf" => k > re

(* C1: a frame callback that fires while isRunning is false does no        *)
(* update, no render, leaves lastTime (and the whole engine) as it is and  *)
(* schedules no frame callback; so no handler that begins while the engine *)
(* is stopped, other than one calling start(), updates or renders.         *)
C1_StoppedTickDoesNothing ==
    [][ /\ (op'.name = "frame" /\ ~engine.isRunning) =>
              /\ trace' = <<>>
              /\ engine' = engine
              /\ raf' = raf - 1
              /\ objs' = objs /\ items' = items
        /\ (~engine.isRunning /\ op'.name # "start") =>
              /\ ~TraceHas(trace', "update")
              /\ ~TraceHas(trace', "render")
              /\ ~TraceHas(trace', "raf")
      ]_vars

\* a frame callback has fired on a stopped engine that has an active scene
C1_Witness ==
    /\ op.name = "frame"
    /\ ~engine.isRunning
    /\ trace = <<>>
    /\ engine.currentScene = "game"

(* C2: a tick schedules the next frame callback only if the engine is      *)
(* still running when it gets there: a tick during whose update stop() was *)
(* called schedules none.                                                  *)
C2_RescheduleOnlyIfRunning ==
    (TraceHas(trace, "update") /\ ~engine.isRunning) => ~TraceHas(trace, "raf")

(* C3: the deltaTime passed to GameEngine.update is never negative,        *)
(* whatever timestamps the host supplies.                                  *)
C3_DeltaTimeNonNegative ==
    \A k \in 1..Len(trace) : trace[k].ev = "update" => trace[k].n >= 0

(* C4: every executed tick does exactly one update and then one render:    *)
(* the scene pass, the global pass and every callback they trigger are     *)
(* over before the render begins.                                          *)
C4_UpdateBeforeRender ==
    [][ (op'.name = "start" \/ (op'.name = "frame" /\ engine.isRunning))
            => TickOrdered(trace') ]_vars

\* a tick in whose update an item was collected and a subscriber called
C4_Witness ==
    /\ op.name = "frame"
    /\ TraceHas(trace, "call")
    /\ TraceHas(trace, "draw")

(* C5: init() of a registered scene is called once in total, however often *)
(* setScene names that scene.                                              *)
C5_InitOnce ==
    \A s \in DOMAIN scenes : scenes[s].inits <= 1

(* C6: a publish on a channel whose handlers do not touch the subscriber   *)
(* list calls each handler of that channel's list once per occurrence, in  *)
(* subscription order, each with the published payload, and calls no       *)
(* handler of another channel.                                             *)
C6_EmitCallsInOrder ==
    op.name = "emit" =>
        trace = [k \in 1..Len(events[op.ch].cbs) |->
                    Ev("call", op.ch, events[op.ch].cbs[k], op.data)]

\* a publish has reached two different subscribers of one channel
C6_Witness ==
    /\ op.name = "emit"
    /\ Len(trace) >= 2
    /\ trace[1].h # trace[2].h

(* C7: a handler subscribed once and then unsubscribed is not called by a  *)
(* later publish on that channel until it is subscribed again: a publish   *)
(* calls no handler all of whose subscriptions have been undone.           *)
C7_UnsubscribedNotCalled ==
    op.name = "emit" =>
        \A k \in 1..Len(trace) : subcnt[trace[k].ch][trace[k].h.id].live > 0

\* a publish ran on a channel from which a handler had been unsubscribed
\* while another handler stayed subscribed, and called that other handler
C7_Witness ==
    /\ op.name = "emit"
    /\ Len(trace) >= 1
    /\ \E h \in LogHandlers : subcnt[op.ch][h.id].undone /\ h # trace[1].h
    /\ \E c \in BusChannels : c # op.ch /\ Len(events[c].cbs) > 0

(* C8: the inventory never holds more than maxItems items, whatever the    *)
(* order of addItem, removeItem, item collections, saves and loads; a load *)
(* replaces the list by the list read from the store.                      *)
C8_InventoryBounded ==
    Len(items) <= maxItems

\* a frame in which a clicked item was refused by the inventory, which a
\* load callback had filled from the save
C8_Witness ==
    /\ op.name = "frame"
    /\ TraceHas(trace, "collect.refused")
    /\ Len(items) = maxItems
    /\ store.kind = "save"

\* the positions of the entries e about object id in tr
IdxOf(tr, e, id) == {k \in 1..Len(tr) : tr[k].ev = e /\ tr[k].n = id}
\* the places of the inventory its holding the description of Item id
Held(its, id) == {k \in 1..Len(its) : its[k].ref = id}

(* C11: for every Item, collected never goes back to false (so it turns     *)
(* true at most once); a handler that does not turn it true appends no      *)
(* description of it and publishes no itemCollected for it, and the one     *)
(* that does appends at most one and publishes at most one, also when the  *)
(* item is updated twice in the frame.                                      *)
C11_CollectedOnce ==
    [][ \A id \in 1..Len(objs) :
          LET turns == IF ~objs[id].collected /\ objs'[id].collected THEN 1 ELSE 0 IN
          objs[id].kind = "item" =>
            /\ objs[id].collected => objs'[id].collected
            /\ Cardinality(Held(items', id)) <= Cardinality(Held(items, id)) + turns
            /\ Cardinality(IdxOf(trace', "collect.published", id)) <= turns ]_vars

\* a frame that ran the update hook of an item twice and collected it
C11_Witness ==
    /\ op.name = "frame"
    /\ \E id \in 1..Len(objs) :
          /\ Cardinality(IdxOf(trace, "obj.update", id)) = 2
          /\ Cardinality(IdxOf(trace, "collect.published", id)) = 1
          /\ Cardinality(Held(items, id)) = 1
          /\ Len(items) > 1

(* C12: mouse.clicked is false when a handler that ran Engine.update ends   *)
(* (the render of the tick comes after the update, so it sees it false);   *)
(* only the click listener turns it true; an update that starts with it   *)
(* false collects nothing.  So a click, or several between two updates,    *)
(* is seen by the next update and by no later one.                         *)
C12_ClickedOneUpdate ==
    [][ /\ TraceHas(trace', "update") => ~engine'.mouse.clicked
        /\ (engine'.mouse.clicked /\ ~engine.mouse.clicked) => op'.name = "click"
        /\ (TraceHas(trace', "update") /\ ~engine.mouse.clicked) =>
              /\ ~TraceHas(trace', "collect.published")
              /\ ~TraceHas(trace', "collect.refused")
              /\ \A id \in 1..Len(objs) : objs'[id].collected = objs[id].collected
      ]_vars

\* a frame whose update saw the click and collected an item, and whose
\* render ran after it
C12_Witness ==
    /\ op.name = "frame"
    /\ TraceHas(trace, "collect.published")
    /\ TraceHas(trace, "render")
    /\ ~engine.mouse.clicked

\* the calls of subscribers of channel c in tr
Calls(tr, c) == {k \in 1..Len(tr) : tr[k].ev = "call" /\ tr[k].ch = c}

(* C13: playCG while a presentation is active changes nothing: the payload *)
(* shown stays, no overlay is added, no closing timer is set, no cgPlayed  *)
(* is published.  A presentation starts only in a playCG call, with that   *)
(* call's payload (a dropped request is not shown later), and there is     *)
(* never more than one overlay.                                            *)
C13_PlayWhilePlayingIsNoOp ==
    [][ /\ (op'.name = "playCG" /\ engine.cgSystem.isPlaying) =>
              /\ engine' = engine
              /\ timers' = timers
              /\ events' = events
              /\ trace' = <<>>
        /\ (engine'.cgSystem.isPlaying /\ engine'.cgSystem # engine.cgSystem) =>
              /\ op'.name = "playCG"
              /\ engine'.cgSystem.currentCG = op'.data
        /\ engine'.cgSystem.overlays <= 1
        /\ engine'.cgSystem.isPlaying <=> engine'.cgSystem.overlays = 1
      ]_vars

\* a second request, with another payload, was made while the first was shown
C13_Witness ==
    /\ op.name = "playCG"
    /\ engine.cgSystem.isPlaying
    /\ engine.cgSystem.currentCG # op.data
    /\ trace = <<>>
    /\ Len(events["cgPlayed"].cbs) > 0

(* C14: when the closing timer of a payload with a duration fires, nothing *)
(* is presented any more; and a presentation whose payload has no duration *)
(* ends only in a closeCG call made by the client or the close button.     *)
C14_AutoDismiss ==
    [][ /\ op'.name = "closeTimer" => ~engine'.cgSystem.isPlaying
        /\ ( /\ engine.cgSystem.isPlaying
             /\ engine.cgSystem.currentCG.duration = 0
             /\ ~engine'.cgSystem.isPlaying ) => op'.name = "closeCG"
      ]_vars

(* C15: closeCG while nothing is presented leaves isPlaying false and      *)
(* currentCG null and calls no subscriber of cgEnded.                      *)
C15_CloseWhenIdleIsNoOp ==
    [][ (op'.name = "closeCG" /\ ~engine.cgSystem.isPlaying) =>
            /\ engine'.cgSystem = engine.cgSystem
            /\ Calls(trace', "cgEnded") = {}
      ]_vars

(* C16: isColliding is true iff the rectangles overlap with all four      *)
(* inequalities strict; so rectangles of positive size that only touch on  *)
(* an edge or a corner do not collide, and one placed half a width inside  *)
(* the other does.                                                         *)
C16_StrictOverlap ==
    op.name = "isColliding" =>
        LET A == objs[op.n]
            B == objs[3 - op.n]
        IN /\ op.ret <=> ( /\ A.x < B.x + B.width  /\ A.x + A.width > B.x
                           /\ A.y < B.y + B.height /\ A.y + A.height > B.y )
           /\ (A.x + A.width = B.x \/ A.y + A.height = B.y) => ~op.ret
           /\ ( /\ A.width = 2 /\ A.height = 2 /\ B.width = 2 /\ B.height = 2
                /\ B.x = A.x + 1 /\ B.y = A.y + 1 ) => op.ret

\* A = {0,0,2,2} and B = {2,0,2,2} touch along an edge: not colliding
C16_Witness ==
    /\ op.name = "isColliding" /\ op.n = 1 /\ ~op.ret
    /\ objs[1] = NewGameObject(0, 0, 2, 2)
    /\ objs[2] = NewGameObject(2, 0, 2, 2)

(* C17: A.isColliding(B) equals B.isColliding(A), for all positions and    *)
(* sizes, zero sizes included.                                             *)
C17_Symmetric ==
    op.name = "isColliding" =>
        /\ op.ret = IsColliding(objs[3 - op.n], objs[op.n])
        /\ IsColliding(objs[1], objs[2]) = IsColliding(objs[2], objs[1])

\* a point strictly inside a rectangle: both calls say true
C17_Witness ==
    /\ op.name = "isColliding" /\ op.n = 2 /\ op.ret
    /\ objs[1].width = 0 /\ objs[1].height = 0
    /\ objs[2].width > 0

\* the pointer as an entity of no size
Pointer(mouse) == NewGameObject(mouse.x, mouse.y, 0, 0)
\* p is on the border of the rectangle of o
OnBorder(o, p) ==
    /\ p.x >= o.x /\ p.x <= o.x + o.width /\ p.y >= o.y /\ p.y <= o.y + o.height
    /\ (p.x = o.x \/ p.x = o.x + o.width \/ p.y = o.y \/ p.y = o.y + o.height)

(* C18: Item.update of an uncollected item attached to the engine leaves   *)
(* hovered true iff the pointer is in the closed rectangle of the item; a  *)
(* pointer on the border, the corners (x, y) and (x+w, y+h) included,      *)
(* hovers although isColliding with an entity of no size there is false.   *)
C18_HoverClosed ==
    [][ (op'.name = "item.update" /\ ~objs[1].collected /\ objs[1].hasEngine) =>
          LET o == objs[1]
              mouse == engine.mouse
          IN /\ objs'[1].hovered <=>
                   ( /\ o.x <= mouse.x /\ mouse.x <= o.x + o.width
                     /\ o.y <= mouse.y /\ mouse.y <= o.y + o.height )
             /\ OnBorder(o, mouse) =>
                   objs'[1].hovered /\ ~IsColliding(o, Pointer(mouse))
      ]_vars

\* the item was updated with the pointer exactly at (x+w, y+h)
C18_Witness ==
    /\ op.name = "item.update"
    /\ ~objs[1].collected
    /\ objs[1].hovered
    /\ engine.mouse.x = objs[1].x + objs[1].width
    /\ engine.mouse.y = objs[1].y + objs[1].height

(* C19: after every Player.update that returns, whatever the frame time,   *)
(* the keys held and the position before, the player's rectangle lies in   *)
(* the surface: 0 <= x <= width - w and 0 <= y <= height - h.              *)
C19_PlayerClamped ==
    (op.name = "player.update" /\ ~TraceHas(trace, "throw")) =>
        /\ 0 <= objs[1].x /\ objs[1].x <= Px(CanvasWidth) - objs[1].width
        /\ 0 <= objs[1].y /\ objs[1].y <= Px(CanvasHeight) - objs[1].height

\* a player put right of and above the surface, with left and down held,
\* was updated with the largest negative frame time
C19_Witness ==
    /\ op.name = "player.update"
    /\ op.n = 0 - HugeDelta
    /\ engine.keys = {"ArrowLeft", "ArrowDown"}
    /\ objs[1].x = Px(CanvasWidth) - objs[1].width
    /\ objs[1].y = 0

(* C20: in one Player.update the position moves, before it is clamped, by  *)
(* direction * speed * deltaTime / 1000 on each axis, direction being -1,  *)
(* 0 or 1 (right over left, down over up) and, when both axes are active,  *)
(* 0.707 times that: with both active and deltaTime 1000 that is 141.4 px  *)
(* on each axis, not 200.  (Px(1) is 1000000 / speed units, so the move is *)
(* sign * thousandths * deltaTime units.)                                  *)
C20_Displacement ==
    [][ (op'.name = "player.update" /\ objs[1].hasEngine) =>
          LET keys == engine.keys
              deltaTime == op'.n
              left == keys \cap {"ArrowLeft", "KeyA"} # {}
              right == keys \cap {"ArrowRight", "KeyD"} # {}
              up == keys \cap {"ArrowUp", "KeyW"} # {}
              down == keys \cap {"ArrowDown", "KeyS"} # {}
              sx == IF right THEN 1 ELSE IF left THEN -1 ELSE 0
              sy == IF down THEN 1 ELSE IF up THEN -1 ELSE 0
              both == (left \/ right) /\ (up \/ down)
              thousandths == IF both THEN 707 ELSE 1000
              x1 == objs[1].x + sx * thousandths * deltaTime
              y1 == objs[1].y + sy * thousandths * deltaTime
          IN /\ objs'[1].direction = [x |-> sx * thousandths, y |-> sy * thousandths]
             /\ objs'[1].x = Max(0, Min(x1, Px(CanvasWidth) - objs[1].width))
             /\ objs'[1].y = Max(0, Min(y1, Px(CanvasHeight) - objs[1].height))
             /\ (both /\ deltaTime = 1000) =>
                    /\ 10 * sx * (x1 - objs[1].x) = Px(1414)
                    /\ 10 * sy * (y1 - objs[1].y) = Px(1414)
      ]_vars

\* from (100, 100), right and down held, one update of 1000 ms: 141.4 px on
\* each axis
C20_Witness ==
    /\ op.name = "player.update"
    /\ op.n = 1000
    /\ engine.keys = {"KeyD", "KeyS"}
    /\ 10 * (objs[1].x - Px(100)) = Px(1414)
    /\ 10 * (objs[1].y - Px(100)) = Px(1414)

(* C21: loadGame on a malformed store (text that does not parse, null, a   *)
(* record with no or with an unusable inventory) throws nothing, in        *)
(* loadGame or in its callback, and the inventory stays as it was.         *)
C21_MalformedIsNotFound ==
    [][ /\ (op'.name = "loadGame" /\ store.kind \in Malformed) =>
              ~TraceHas(trace', "throw") /\ items' = items
        /\ (op'.name = "loadTimer" /\ Head(timers.load).kind \in Malformed) =>
              ~TraceHas(trace', "throw") /\ items' = items
      ]_vars

(* C22: setScene with a name that is not registered leaves the active      *)
(* scene and everything else as it is and calls no init(); emit on a       *)
(* channel with no subscriber calls nothing and changes nothing; off on a  *)
(* channel nobody subscribed to leaves the bus as it is; nothing throws.   *)
C22_MissingIsNoOp ==
    [][ /\ (op'.name = "setScene" /\ op'.ch \notin DOMAIN scenes) =>
              /\ engine' = engine /\ scenes' = scenes /\ objs' = objs
              /\ events' = events /\ trace' = <<>>
        /\ (op'.name = "emit" /\ Len(events[op'.ch].cbs) = 0) =>
              /\ engine' = engine /\ scenes' = scenes /\ objs' = objs
              /\ events' = events /\ items' = items /\ timers' = timers
              /\ trace' = <<>>
        /\ (op'.name = "off" /\ ~events[op'.ch].has) =>
              /\ events' = events /\ engine' = engine /\ trace' = <<>>
        /\ ~TraceHas(trace', "throw")
      ]_vars

\* setScene named a scene that is not registered while "game" was active
\* and initialised once, the bus in use
C22_Witness ==
    /\ op.name = "setScene" /\ op.ch = "cave"
    /\ engine.currentScene = "game"
    /\ scenes["game"].inits = 1
    /\ \E c \in BusChannels : Len(events[c].cbs) > 1

(* C23: whenever the menu is visible the engine's isRunning is false,      *)
(* whatever the order of the start and load buttons, the delayed start of  *)
(* a load, Escape, and show, hide and toggle                               *)
C23_MenuGates == menu.visible => ~engine.isRunning

\* Escape brought the menu back over a game that had been started twice,
\* a load still waiting for its delayed start
C23_Witness ==
    /\ op.name = "escape"
    /\ menu.visible
    /\ scenes["game"].inits > 1
    /\ Len(timers.load) > 0

(* C24: off(channel, handler) removes the first occurrence of the handler  *)
(* from the channel's list and keeps the others in their order; a handler  *)
(* that is not in the list leaves the bus as it was; no other channel's    *)
(* list changes; a publish then calls what is left, once per occurrence    *)
C24_OffRemovesFirst ==
    [][ /\ op'.name = "off" =>
              LET old == events[op'.ch].cbs
                  new == events'[op'.ch].cbs
                  found == {k \in 1..Len(old) : old[k] = op'.h}
              IN /\ \A c \in Channels : c # op'.ch => events'[c] = events[c]
                 /\ found = {} => events' = events
                 /\ found # {} =>
                       LET i == CHOOSE k \in found : \A j \in found : k <= j IN
                       /\ Len(new) = Len(old) - 1
                       /\ \A k \in 1..Len(new) :
                             new[k] = IF k < i THEN old[k] ELSE old[k + 1]
        /\ op'.name = "emit" =>
              /\ Len(trace') = Len(events[op'.ch].cbs)
              /\ \A k \in 1..Len(trace') : trace'[k].h = events[op'.ch].cbs[k]
      ]_vars

\* an unsubscription of a handler has left a list in which that handler is
\* still subscribed, behind another handler
C24_Witness ==
    /\ op.name = "off"
    /\ Len(events[op.ch].cbs) = 2
    /\ events[op.ch].cbs[1] # op.h
    /\ events[op.ch].cbs[2] = op.h

(* C25: removeItem(item) removes the first occurrence of the item, keeps   *)
(* the other items in their order and returns true, if the item is in the  *)
(* inventory; otherwise it returns false and the inventory is unchanged    *)
C25_RemoveItem ==
    [][ op'.name = "removeItem" =>
            LET found == {k \in 1..Len(items) : items[k] = op'.data} IN
            IF found = {}
            THEN ~op'.ret /\ items' = items
            ELSE LET i == CHOOSE k \in found : \A j \in found : k <= j IN
                 /\ op'.ret
                 /\ Len(items') = Len(items) - 1
                 /\ \A k \in 1..Len(items') :
                       items'[k] = IF k < i THEN items[k] ELSE items[k + 1]
      ]_vars

\* a removal has succeeded and left a later occurrence of the removed item
\* behind another item
C25_Witness ==
    /\ op.name = "removeItem"
    /\ op.ret
    /\ Len(items) >= 2
    /\ items[1] # op.data
    /\ \E k \in 2..Len(items) : items[k] = op.data

(* C26: an item's collected, once true, stays true; and no handler that    *)
(* starts with it true changes the item's hovered, collects it (with or    *)
(* without success), adds its description to the inventory or draws it     *)
C26_CollectedTerminal ==
    [][ \A id \in 1..Len(objs) :
          (objs[id].kind = "item" /\ objs[id].collected) =>
            /\ objs'[id].collected
            /\ objs'[id].hovered = objs[id].hovered
            /\ IdxOf(trace', "collect.published", id) = {}
            /\ IdxOf(trace', "collect.refused", id) = {}
            /\ IdxOf(trace', "draw", id) = {}
            /\ Cardinality(Held(items', id)) <= Cardinality(Held(items, id))
      ]_vars

\* a frame has updated and rendered a collected item whose hovered is still
\* true although the pointer has left it
C26_Witness ==
    /\ op.name = "frame"
    /\ TraceHas(trace, "render")
    /\ \E id \in 1..Len(objs) :
          /\ objs[id].kind = "item"
          /\ objs[id].collected
          /\ objs[id].hovered
          /\ engine.mouse.x < objs[id].x
          /\ IdxOf(trace, "obj.update", id) # {}

(* C27: an update publishes itemCollected with an item's description iff   *)
(* addItem has put that description into the inventory in that update     *)
(* (a refused item publishes nothing); the subscribers are called after    *)
(* the insertion and after collected was set: the description is in the    *)
(* inventory and collected is true, and the scene's listener, which reads  *)
(* the inventory's length, counts the inserted item                        *)
C27_PublishedAfterInsertion ==
    [][ op'.name = "update" =>
          \A id \in 1..Len(objs) :
            objs[id].kind = "item" =>
              LET d == objs[id].itemData
                  published == IdxOf(trace', "collect.published", id) # {}
                  called == {k \in Calls(trace', "itemCollected") : trace'[k].data = d}
                  added == Cardinality(Held(items', id)) = Cardinality(Held(items, id)) + 1
              IN /\ published <=> added
                 /\ IdxOf(trace', "collect.refused", id) # {} =>
                        ~published /\ Held(items', id) = Held(items, id)
                 /\ (called # {}) <=> published
                 /\ published =>
                       /\ objs'[id].collected
                       /\ \E k \in 1..Len(items') : items'[k] = d
                       /\ \A k \in called :
                             \A j \in IdxOf(trace', "collect.published", id) : j < k
                       /\ (Len(items') >= 3 /\ ~scenes["game"].cgTriggered) =>
                             timers'.completion > timers.completion
      ]_vars

\* an update has collected the third item of the inventory and the scene's
\* listener has set the completion timer
C27_Witness ==
    /\ op.name = "update"
    /\ TraceHas(trace, "collect.published")
    /\ Len(items) = 3
    /\ timers.completion = 1

\* the objects whose update hook was called, in the order of the calls
UpdateHooks(tr) ==
    LET hooks == SelectSeq(tr, LAMBDA e : e.ev = "obj.update") IN
    [k \in 1..Len(hooks) |-> hooks[k].n]

(* C28: engine.update calls the update hook of each object of the active   *)
(* scene's list in the list's order (of none when no scene is active),     *)
(* then of each object of the engine's list in its order, so twice for an  *)
(* object in both lists, and only then resets mouse.clicked                *)
C28_UpdateOrder ==
    op.name = "update" =>
        /\ UpdateHooks(trace) =
              (IF engine.currentScene # ""
               THEN scenes[engine.currentScene].gameObjects ELSE <<>>)
                 \o engine.gameObjects
        /\ trace[1].ev = "update"
        /\ trace[Len(trace)].ev = "update.end"
        /\ ~engine.mouse.clicked
        /\ \A id \in 1..Len(objs) :
              (objs[id].kind = "item" /\ IdxOf(trace, "collect.published", id) # {}) =>
                 \E k \in IdxOf(trace, "obj.update", id) :
                    /\ \A j \in IdxOf(trace, "obj.update", id) : k <= j
                    /\ \A j \in IdxOf(trace, "collect.published", id) : j = k + 1

\* an update with the scene active has collected, on one click, an item of
\* the scene and then the item that is in the engine's list only
C28_Witness ==
    /\ op.name = "update"
    /\ engine.currentScene = "game"
    /\ IdxOf(trace, "collect.published", 1) # {}
    /\ \E id \in 2..Len(objs) :
          /\ Cardinality(IdxOf(trace, "obj.update", id)) = 2
          /\ \E k \in IdxOf(trace, "collect.published", id) :
                \A j \in IdxOf(trace, "collect.published", 1) : k < j

(* C29: a render issues no drawing call for an entity, of whatever kind,   *)
(* whose visible is false; and the scene's background is painted before    *)
(* its entities, which are drawn in the order of the scene's list          *)
C29_InvisibleNotDrawn ==
    op.name = "render" =>
        /\ \A id \in 1..Len(objs) :
              ~objs[id].visible => IdxOf(trace, "draw", id) = {}
        /\ engine.currentScene # "" =>
              /\ Idx(trace, "background") # {}
              /\ \A b \in Idx(trace, "background"), k \in Idx(trace, "draw") : b < k
              /\ \A t \in Idx(trace, "text") :
                    \A i, j \in 1..(t - 1) :
                        (trace[i].ev = "draw" /\ trace[j].ev = "draw" /\ i < j) =>
                            \E a, b \in 1..Len(scenes[engine.currentScene].gameObjects) :
                                /\ a < b
                                /\ scenes[engine.currentScene].gameObjects[a] = trace[i].n
                                /\ scenes[engine.currentScene].gameObjects[b] = trace[j].n

(* C30: every subscriber of cgEnded is called with null, never with the    *)
(* payload that was presented, and only by closeCG; every subscriber of    *)
(* cgPlayed is called with the payload that playCG accepted                *)
C30_EndedCarriesNull ==
    [][ /\ \A k \in Calls(trace', "cgEnded") :
              /\ trace'[k].data = NullCG
              /\ op'.name \in {"closeCG", "closeTimer"}
        /\ \A k \in Calls(trace', "cgPlayed") :
              /\ op'.name = "playCG"
              /\ ~engine.cgSystem.isPlaying
              /\ trace'[k].data = op'.data
              /\ trace'[k].data = engine'.cgSystem.currentCG
        /\ (op'.name \in {"closeCG", "closeTimer"} /\ engine.cgSystem.isPlaying) =>
              Cardinality(Calls(trace', "cgEnded")) = Len(events["cgEnded"].cbs)
      ]_vars

\* a closing timer has ended a presentation and the scene's listener and
\* the client's were called
C30_Witness ==
    /\ op.name = "closeTimer"
    /\ Cardinality(Calls(trace, "cgEnded")) >= 2
    /\ \A k \in Calls(trace, "cgEnded") : trace[k].data = NullCG
    /\ engine.cgSystem.currentCG = NullCG

(* C31: every object of the list of a registered scene is in the engine's  *)
(* list, after any order of addScene, scene.addGameObject,                 *)
(* engine.addGameObject and engine.removeGameObject                        *)
C31_GlobalSuperset ==
    \A s \in DOMAIN scenes :
        \A k \in 1..Len(scenes[s].gameObjects) :
            \E j \in 1..Len(engine.gameObjects) :
                engine.gameObjects[j] = scenes[s].gameObjects[k]

(* C32: when the load callback restores a save that was written from the   *)
(* inventory as it is now, the inventory is afterwards what it was: the    *)
(* same descriptions in the same order                                     *)
C32_RoundTrip ==
    [][ ( /\ op'.name = "loadTimer"
          /\ Head(timers.load).kind = "save"
          /\ Head(timers.load).inventory = Parse(Stringify(items)) )
            => items' = items ]_vars

C34_OneFrameOutstanding == raf <= 1

(* C35: a publish calls every recording handler that was in the channel's  *)
(* list when the publish began (none of them is unsubscribed during the    *)
(* publish) once per subscription, also when another handler of the list   *)
(* unsubscribes itself or subscribes a handler while the publish goes on   *)
C35_PublishReachesAll ==
    [][ op'.name = "emit" =>
          \A h \in LogHandlers :
              Cardinality({k \in Calls(trace', op'.ch) : trace'[k].h = h})
                  = Cardinality({k \in 1..Len(events[op'.ch].cbs) :
                                    events[op'.ch].cbs[k] = h})
      ]_vars

(* C36: a presentation whose payload has a duration is ended by a closing  *)
(* timer only if the timer is its own.  All durations requested are equal, *)
(* so the timers fire in the order they were set; the presentation's own   *)
(* timer is the last one set (no playCG is accepted while it is shown), so *)
(* it is the one that fires only when no other timer is outstanding        *)
C36_OwnTimerOnly ==
    [][ ( /\ op'.name = "closeTimer"
          /\ engine.cgSystem.isPlaying
          /\ engine.cgSystem.currentCG.duration # 0
          /\ ~engine'.cgSystem.isPlaying )
            => timers.close = 1 ]_vars

(* C37: start() sets lastTime to the time of the call and runs a tick at   *)
(* once, whose update gets deltaTime 0; no update gets a deltaTime that     *)
(* reaches back beyond the last start(), so none counts time during which  *)
(* the engine was stopped                                                  *)
C37_PausedTimeNotCounted ==
    /\ \A k \in Idx(trace, "update") :
          /\ trace[k].n >= 0
          /\ trace[k].n <= clock.now - clock.started
    /\ op.name = "start" =>
          /\ engine.lastTime = clock.now
          /\ Idx(trace, "update") # {}
          /\ \A k \in Idx(trace, "update") : trace[k].n = 0

\* a tick after a pause during which time passed: its deltaTime is the time
\* since the restart
C37_Witness ==
    /\ op.name = "frame"
    /\ clock.stopped > 0
    /\ clock.stopped < clock.started
    /\ \E k \in Idx(trace, "update") :
          /\ trace[k].n > 0
          /\ trace[k].n = clock.now - clock.started

(* C38: the update that consumes a click turns collected true for at most  *)
(* one item and appends at most one description to the inventory           *)
C38_OneItemPerClick ==
    [][ (engine.mouse.clicked /\ TraceHas(trace', "update")) =>
          /\ Cardinality({id \in 1..Len(objs) :
                            /\ objs[id].kind = "item"
                            /\ ~objs[id].collected
                            /\ objs'[id].collected}) <= 1
          /\ Cardinality(Idx(trace', "collect.published")) <= 1
          /\ op'.name = "frame" => Len(items') <= Len(items) + 1
      ]_vars

(* C9: addItem returns true and appends the item at the end, the earlier   *)
(* items unchanged, iff the inventory holds fewer than maxItems items;     *)
(* otherwise it returns false and changes nothing.                         *)
C9_AddItem ==
    [][ op'.name = "addItem" =>
            IF Len(items) < maxItems
            THEN op'.ret /\ items' = Append(items, op'.data)
            ELSE ~op'.ret /\ items' = items ]_vars

\* the eleventh addItem has failed on an inventory of ten items
C9_Witness ==
    /\ op.name = "addItem"
    /\ ~op.ret
    /\ Len(items) = maxItems
    /\ \E i, j \in 1..Len(items) : items[i] # items[j]

(* C10: an uncollected item that is hovered and clicked while the          *)
(* inventory is full stays uncollected, so that a later click can collect  *)
(* it.                                                                     *)
C10_FullInventoryKeepsItem ==
    [][ \A id \in 1..Len(objs) :
           (op'.name = "update" /\ Len(items) = maxItems /\ ~objs[id].collected)
               => ~objs'[id].collected ]_vars

====
